---- MODULE Spec2Model ----
(***************************************************************************)
(* Model of run.py: the batch driver that renders a task per input file     *)
(* and dispatches it to the first agent of a rotating queue, rotating on a  *)
(* rate-limit response and aborting on any other failure.                   *)
(*                                                                          *)
(* Texts (the task template, an agent's stdout and stderr) are sequences    *)
(* of words; a file name is the pair <<root, extension>> of its base name.  *)
(* The filesystem under the output directory is the record fs.              *)
(***************************************************************************)
EXTENDS Integers, Sequences, FiniteSets, TLC

VARIABLES
    pc,           \* position of main(): "start", "files", "agents", "end", "done"
    run,          \* number of the process run (main() is entered once per run)
    task,         \* text of the task file (--task)
    args,         \* parsed command line: sample_run, force_rerun, bwrap, agents
    input_dir,    \* the input path: [isfile, entries]
    bwrap_found,  \* shutil.which("bwrap") is not None
    fs,           \* the output directory: [dirs, prompts, logs, outputs]
    input_files,  \* list_input_files(input_dir)
    agents_list,  \* the parsed --agents list
    agents,       \* the deque of agent names
    idx,          \* index into input_files of the file the outer loop is at
    tried,        \* iterations of the inner loop finished for the current file
    attempts,     \* failed attempts on the current file: <<agent, log_path>>
    result,       \* CompletedProcess of the last invocation, or NoResult
    succeeded,    \* counter
    failed,       \* counter
    exit_code,    \* value returned by main(), or Running
    fs_start,     \* history: fs when the current run started
    queue_before, \* history: the deque when the current file's inner loop began
    rotations,    \* history: rate-limited attempts of the current run
    trace,        \* history: the effects of the current run, in order
    prev          \* history: summaries of the finished runs

vars == <<pc, run, task, args, input_dir, bwrap_found, fs, input_files,
          agents_list, agents, idx, tried, attempts, result, succeeded, failed,
          exit_code, fs_start, queue_before, rotations, trace, prev>>

----------------------------------------------------------------------------
(* Bounds of the model *)

MaxFiles == 2      \* most entries of the input directory
MaxAgents == 3     \* most comma-separated entries of --agents
MaxRuns == 2       \* most runs over the same output directory

----------------------------------------------------------------------------
(* Values *)

NoResult == [returncode |-> -1, stdout |-> <<>>, stderr |-> <<>>]
Running == -1

\* base names an input directory may hold, as <<root, extension>>
FilePool == { <<"a", ".md">>, <<"a", ".txt">>, <<"b", ".txt">> }

\* rank of a string in the order Python's sorted() puts the base names in
StrRank(s) ==
    CASE s = "a" -> 1
      [] s = "b" -> 2
      [] s = ".md" -> 1
      [] s = ".txt" -> 2
      [] OTHER -> 0

\* os.path.basename(p) < os.path.basename(q)
BaseNameLess(p, q) ==
    \/ StrRank(p[1]) < StrRank(q[1])
    \/ p[1] = q[1] /\ StrRank(p[2]) < StrRank(q[2])

PLACEHOLDER == "{{INPUT_FILE}}"

Templates ==
    { <<"analyze", "{{INPUT_FILE}}">>,
      <<"analyze", "{input_file}", "at", "{input_path}">> }

\* entries between the commas of --agents
RawAgents == { "claude", " codex", "gemini", "" }

\* what an invocation may return: exit code, stdout and stderr
Outcomes ==
    { [returncode |-> 0, stdout |-> <<"RESULT">>, stderr |-> <<>>],
      [returncode |-> 0, stdout |-> <<"REPORT">>, stderr |-> <<"Rate Limit">>],
      [returncode |-> 1, stdout |-> <<>>, stderr |-> <<"Rate Limit">>],
      [returncode |-> 1, stdout |-> <<"429">>, stderr |-> <<>>],
      [returncode |-> 1, stdout |-> <<>>, stderr |-> <<"boom">>],
      [returncode |-> 3, stdout |-> <<"RESULT">>, stderr |-> <<"boom">>] }

\* content of an output artifact left by an earlier use of the output directory
OldOutput == <<"OLD">>

----------------------------------------------------------------------------
(* Helpers of the source *)

RECURSIVE SeqsUpTo(_, _)
SeqsUpTo(S, n) ==
    IF n = 0 THEN { <<>> }
    ELSE LET shorter == SeqsUpTo(S, n - 1)
         IN  shorter \cup { Append(s, x) : s \in { t \in shorter : Len(t) = n - 1 }, x \in S }

Range(s) == { s[i] : i \in DOMAIN s }

\* str.strip() on one --agents entry
Strip(s) ==
    CASE s = " codex" -> "codex"
      [] s = " " -> ""
      [] OTHER -> s

\* str.lower() on one word
Lower(w) ==
    CASE w = "Rate Limit" -> "rate limit"
      [] w = "RESULT" -> "result"
      [] w = "REPORT" -> "report"
      [] OTHER -> w

\* [agent.strip() for agent in args.agents.split(",") if agent.strip()]
ParseAgents(raw) ==
    LET stripped == [i \in DOMAIN raw |-> Strip(raw[i])]
    IN  SelectSeq(stripped, LAMBDA a : a # "")

\* mutant: a legacy token is taken for the placeholder
HasPlaceholder_Legacy(t) == \E i \in DOMAIN t : t[i] \in { PLACEHOLDER, "{input_file}" }

\* "{{INPUT_FILE}}" in task
HasPlaceholder(t) == \E i \in DOMAIN t : t[i] = PLACEHOLDER

\* mutant: the entries are enumerated in descending order of base name
RECURSIVE SortByBaseName_Descending(_)
SortByBaseName_Descending(S) ==
    IF S = {} THEN <<>>
    ELSE LET greatest == CHOOSE p \in S : \A q \in S \ {p} : BaseNameLess(q, p)
         IN  <<greatest>> \o SortByBaseName_Descending(S \ {greatest})

\* sorted(entries, key=basename) of a directory, or [input_path] of a file
RECURSIVE SortByBaseName(_)
SortByBaseName(S) ==
    IF S = {} THEN <<>>
    ELSE LET least == CHOOSE p \in S : \A q \in S \ {p} : BaseNameLess(p, q)
         IN  <<least>> \o SortByBaseName(S \ {least})

list_input_files(input_path) ==
    IF input_path.isfile THEN << CHOOSE p \in input_path.entries : TRUE >>
    ELSE SortByBaseName(input_path.entries)

\* the relative (or, under bwrap, absolute) path handed to the template
InputRelPath(input_file, bwrap) ==
    IF bwrap THEN <<"abs", input_file>> ELSE <<"rel", input_file>>

render_task(t, input_file, input_rel_path) ==
    [i \in DOMAIN t |->
        CASE t[i] = "{{INPUT_FILE}}" -> input_rel_path
          [] t[i] = "{input_file}" -> <<"name", input_file>>
          [] t[i] = "{input_path}" -> input_rel_path
          [] OTHER -> <<"text", t[i]>>]

\* os.path.splitext(input_file)[0] + ".json", under output_dir
OutputPath(input_file) == <<input_file[1], ".json">>

\* path of an attempt's log: logs/<agent>/<input_file>.log
LogPath(agent, input_file) == <<agent, input_file>>

\* the invoker main() picks for an agent name
Invoker(agent) ==
    CASE agent = "claude" -> "run_claude"
      [] agent = "gemini" -> "run_gemini"
      [] OTHER -> "run_codex"

\* "\n".join(part for part in [stdout.strip(), stderr.strip()] if part)
CombinedOutput(r) == r.stdout \o r.stderr

RateLimitTokens == { "rate limit", "rate-limit", "too many requests", "429" }

is_rate_limited(output) ==
    \E i \in DOMAIN output : Lower(output[i]) \in RateLimitTokens

\* os.makedirs(path, exist_ok=True): the directory and its parents
ensure_dir(dirs, path) ==
    dirs \cup { SubSeq(path, 1, n) : n \in 0..Len(path) }

PromptsDir == <<"prompts">>
LogsDir == <<"logs">>

\* mutant: popleft() without the append
Rotate_Drop(q) == Tail(q)

\* agents.popleft(); agents.append(failed_agent)
Rotate(q) == Append(Tail(q), Head(q))

\* open(path, "w").write(content) on one of the maps of fs
WriteFile(files, path, content) ==
    [p \in DOMAIN files \cup {path} |-> IF p = path THEN content ELSE files[p]]

\* what the log of an attempt holds: the command and the exit code
LogText(agent, r) == [command |-> Invoker(agent), exit_code |-> r.returncode]

\* one effect of the run, as the history records it
Ev(op, file, agent, rc) == [op |-> op, file |-> file, agent |-> agent, rc |-> rc]

NoName == <<"", "">>

----------------------------------------------------------------------------
(* Inputs *)

\* --agents values: the names of a list first occur in the order claude, codex, gemini
FirstUse(q) ==
    \A i \in DOMAIN q :
        /\ q[i] = "codex" => \E j \in 1..(i - 1) : q[j] = "claude"
        /\ q[i] = "gemini" => \E j \in 1..(i - 1) : q[j] = "codex"

\* (str.split(",") yields at least one entry)
AgentArgs ==
    { raw \in SeqsUpTo(RawAgents, MaxAgents) : Len(raw) >= 1 /\ FirstUse(ParseAgents(raw)) }

InputPaths ==
    { [isfile |-> FALSE, entries |-> S] : S \in { T \in SUBSET FilePool : Cardinality(T) <= MaxFiles } }
    \cup { [isfile |-> TRUE, entries |-> {p}] : p \in FilePool }

OutputPaths == { OutputPath(p) : p \in FilePool }

EmptyFs == [dirs |-> {}, prompts |-> <<>>, logs |-> <<>>, outputs |-> <<>>]

Init ==
    /\ pc = "start"
    /\ run = 1
    /\ task \in Templates
    /\ args \in [sample_run : BOOLEAN, force_rerun : BOOLEAN, bwrap : BOOLEAN,
                  agents : AgentArgs]
    /\ input_dir \in InputPaths
    /\ bwrap_found \in BOOLEAN
    /\ \E old \in SUBSET OutputPaths :
          fs = [EmptyFs EXCEPT !.dirs = IF old = {} THEN {} ELSE { <<>> },
                               !.outputs = [p \in old |-> OldOutput]]
    /\ input_files = <<>>
    /\ agents_list = <<>>
    /\ agents = <<>>
    /\ idx = 0
    /\ tried = 0
    /\ attempts = <<>>
    /\ result = NoResult
    /\ succeeded = 0
    /\ failed = 0
    /\ exit_code = Running
    /\ fs_start = fs
    /\ queue_before = <<>>
    /\ rotations = 0
    /\ trace = <<>>
    /\ prev = <<>>

----------------------------------------------------------------------------
(* main() *)

\* return <code> from main()
Return(code) ==
    /\ pc' = "done"
    /\ exit_code' = code

\* mutant: the existing output is not looked at
SkipFile_Never(output_path) == FALSE

\* os.path.exists(output_path) and not args.force_rerun
SkipFile(output_path) ==
    output_path \in DOMAIN fs.outputs /\ ~args.force_rerun

\* mutant: an exit code 0 with a rate-limit signature is not a success
IsSuccess_NoSignature(r) == r.returncode = 0 /\ ~is_rate_limited(CombinedOutput(r))

\* result.returncode == 0
IsSuccess(r) == r.returncode = 0

\* mutant: agents.rotate(1), which moves the last agent to the front
AfterRateLimit_Right(q) == <<q[Len(q)]>> \o SubSeq(q, 1, Len(q) - 1)

\* mutant: the rate-limited agent is left at the front of the deque
AfterRateLimit_Stay(q) == q

\* the deque after an attempt that failed with a rate-limit signature
AfterRateLimit(q) == Rotate(q)

\* mutant: continue without looking at --sample-run
StopAfterSkip_Never == FALSE

\* if args.sample_run: break, after a skipped file
StopAfterSkip == args.sample_run

\* if args.sample_run: break, after a processed file
StopAfterFile == args.sample_run

\* mutant: return 1 whatever the agent returned
FatalCode_One(r) == IF r.returncode = 0 THEN 0 ELSE 1

\* mutant: a fatal failure is reported as exit code 0
FatalCode_Zero(r) == 0

\* return result.returncode
FatalCode(r) == r.returncode

\* the directories main() creates before it reads --agents
StartupDirs(dirs) == ensure_dir(ensure_dir(dirs, PromptsDir), LogsDir)

\* mutant: the output artifact is written before the exit code is looked at
AttemptWrites_Always(files, agent, input_file, r) ==
    [files EXCEPT
        !.dirs = ensure_dir(@, <<"logs", agent>>),
        !.logs = WriteFile(@, LogPath(agent, input_file), LogText(agent, r)),
        !.outputs = WriteFile(@, OutputPath(input_file), r.stdout)]

\* the effects an attempt has on the output directory: the agent's log
\* directory, the log and, on success, the output artifact
AttemptWrites(files, agent, input_file, r) ==
    [files EXCEPT
        !.dirs = ensure_dir(@, <<"logs", agent>>),
        !.logs = WriteFile(@, LogPath(agent, input_file), LogText(agent, r)),
        !.outputs = IF IsSuccess(r)
                    THEN WriteFile(@, OutputPath(input_file), r.stdout)
                    ELSE @]

\* mutant: the prompt is not persisted
WritePrompt_None(files, input_file, text) == files

\* with open(prompt_path, "w") as handle: handle.write(prompt_text)
WritePrompt(files, input_file, text) ==
    [files EXCEPT !.prompts = WriteFile(@, input_file, text)]

\* mutant: the for-else returns the code of the last attempt
ExhaustedCode_Last == result.returncode

\* return 3, when every agent was rate-limited
ExhaustedCode == 3

\* lines 163-203: read the task, list the input, create the directories,
\* build the queue
Startup ==
    /\ pc = "start"
    /\ UNCHANGED <<run, task, args, input_dir, bwrap_found, tried, attempts, result,
                   succeeded, failed, fs_start, queue_before, rotations, prev>>
    /\ IF ~HasPlaceholder(task)
       THEN /\ Return(2)
            /\ UNCHANGED <<fs, input_files, agents_list, agents, idx, trace>>
       ELSE /\ input_files' = list_input_files(input_dir)
            /\ trace' = Append(trace, Ev("list", NoName, "", 0))
            /\ IF input_files' = <<>>
               THEN /\ Return(1)
                    /\ UNCHANGED <<fs, agents_list, agents, idx>>
               ELSE IF args.bwrap /\ ~bwrap_found
               THEN /\ Return(2)
                    /\ UNCHANGED <<fs, agents_list, agents, idx>>
               ELSE /\ fs' = [fs EXCEPT !.dirs = StartupDirs(@)]
                    /\ agents_list' = ParseAgents(args.agents)
                    /\ IF agents_list' = <<>>
                       THEN /\ Return(2)
                            /\ UNCHANGED <<agents, idx>>
                       ELSE /\ agents' = agents_list'
                            /\ idx' = 1
                            /\ pc' = "files"
                            /\ UNCHANGED exit_code

\* lines 204-229: the outer loop takes the next input file: it is skipped,
\* or its prompt is written and the inner loop begins
NextFile ==
    /\ pc = "files"
    /\ idx <= Len(input_files)
    /\ UNCHANGED <<run, task, args, input_dir, bwrap_found, input_files, agents_list,
                   agents, result, failed, exit_code, fs_start, rotations, prev>>
    /\ LET input_file == input_files[idx]
           input_rel_path == InputRelPath(input_file, args.bwrap)
       IN  IF SkipFile(OutputPath(input_file))
           THEN /\ succeeded' = succeeded + 1
                /\ trace' = Append(trace, Ev("skip", input_file, "", 0))
                /\ IF StopAfterSkip
                   THEN pc' = "end" /\ idx' = idx
                   ELSE pc' = "files" /\ idx' = idx + 1
                /\ UNCHANGED <<fs, tried, attempts, queue_before>>
           ELSE /\ fs' = WritePrompt(fs, input_file,
                                       render_task(task, input_file, input_rel_path))
                /\ trace' = Append(trace, Ev("prompt", input_file, "", 0))
                /\ attempts' = <<>>
                /\ tried' = 0
                /\ queue_before' = agents
                /\ pc' = "agents"
                /\ UNCHANGED <<idx, succeeded>>

\* mutant: the inner loop is given one iteration more than the queue is long
LoopBound_Retry == Len(queue_before) + 1

\* line 230: range(len(agents)), evaluated when the inner loop starts
LoopBound == Len(queue_before)

\* lines 230-281: one iteration of the inner loop: invoke the agent at the
\* front of the queue, write its log, then succeed, rotate or abort
Attempt ==
    /\ pc = "agents"
    /\ tried < LoopBound
    /\ UNCHANGED <<run, task, args, input_dir, bwrap_found, input_files, agents_list,
                   fs_start, queue_before, prev>>
    /\ \E r \in Outcomes :
         LET input_file == input_files[idx]
             agent == Head(agents)
             invoked == <<Ev("invoke", input_file, agent, r.returncode),
                          Ev("log", input_file, agent, r.returncode)>>
         IN  /\ result' = r
             /\ fs' = AttemptWrites(fs, agent, input_file, r)
             /\ IF IsSuccess(r)
                THEN /\ trace' = trace \o invoked
                                   \o <<Ev("output", input_file, agent, r.returncode)>>
                     /\ succeeded' = succeeded + 1
                     /\ IF StopAfterFile
                        THEN pc' = "end" /\ idx' = idx
                        ELSE pc' = "files" /\ idx' = idx + 1
                     /\ UNCHANGED <<agents, tried, attempts, failed, exit_code, rotations>>
                ELSE /\ attempts' = Append(attempts, <<agent, LogPath(agent, input_file)>>)
                     /\ IF is_rate_limited(CombinedOutput(r))
                        THEN /\ agents' = AfterRateLimit(agents)
                             /\ trace' = trace \o invoked
                                           \o <<Ev("rotate", input_file, agent, r.returncode)>>
                             /\ tried' = tried + 1
                             /\ rotations' = rotations + 1
                             /\ UNCHANGED <<pc, idx, succeeded, failed, exit_code>>
                        ELSE /\ failed' = failed + 1
                             /\ trace' = trace \o invoked
                             /\ Return(FatalCode(r))
                             /\ UNCHANGED <<agents, idx, tried, succeeded, rotations>>

\* lines 282-291: the inner loop ran out of agents
Exhausted ==
    /\ pc = "agents"
    /\ tried = LoopBound
    /\ failed' = failed + 1
    /\ Return(ExhaustedCode)
    /\ UNCHANGED <<run, task, args, input_dir, bwrap_found, fs, input_files, agents_list,
                   agents, idx, tried, attempts, result, succeeded, fs_start,
                   queue_before, rotations, trace, prev>>

\* lines 293-297: the outer loop is over (no file left, or the sample-run break)
Finish ==
    /\ \/ pc = "end"
       \/ pc = "files" /\ idx > Len(input_files)
    /\ Return(0)
    /\ UNCHANGED <<run, task, args, input_dir, bwrap_found, fs, input_files, agents_list,
                   agents, idx, tried, attempts, result, succeeded, failed, fs_start,
                   queue_before, rotations, trace, prev>>

\* number of invocations the current run has made
Invocations == Cardinality({ i \in DOMAIN trace : trace[i].op = "invoke" })

\* lines 300-301: after a run that exited 0, the same command line, less
\* --force-rerun, is run again over the same directories
Rerun ==
    /\ pc = "done"
    /\ exit_code = 0
    /\ run < MaxRuns
    /\ run' = run + 1
    /\ prev' = Append(prev, [exit_code |-> exit_code, args |-> args])
    /\ pc' = "start"
    /\ input_files' = <<>>
    /\ agents_list' = <<>>
    /\ agents' = <<>>
    /\ idx' = 0
    /\ tried' = 0
    /\ attempts' = <<>>
    /\ result' = NoResult
    /\ succeeded' = 0
    /\ failed' = 0
    /\ exit_code' = Running
    /\ fs_start' = fs
    /\ queue_before' = <<>>
    /\ rotations' = 0
    /\ trace' = <<>>
    /\ args' = [args EXCEPT !.force_rerun = FALSE]
    /\ UNCHANGED <<task, input_dir, bwrap_found, fs>>

Next == Startup \/ NextFile \/ Attempt \/ Exhausted \/ Finish

Spec == Init /\ [][Next]_vars

NextTwice == Next \/ Rerun

SpecTwice == Init /\ [][NextTwice]_vars

\* every external invocation returns and the interpreter keeps running: a
\* step that can be taken is taken
SpecFair == Spec /\ WF_vars(Next)

----------------------------------------------------------------------------
(* Vocabulary of the properties *)

Last(s) == s[Len(s)]

\* no name occurs twice in q
Distinct(q) == \A i, j \in DOMAIN q : i # j => q[i] # q[j]

\* q rotated left by k places
RotateLeft(q, k) == [i \in 1..Len(q) |-> q[((i - 1 + k) % Len(q)) + 1]]

\* number of occurrences of x in q
Count(q, x) == Cardinality({ i \in DOMAIN q : q[i] = x })

\* the combined output of r holds a rate-limit signature
HasSignature(r) ==
    \E w \in Range(r.stdout) \cup Range(r.stderr) :
        Lower(w) \in { "rate limit", "rate-limit", "too many requests", "429" }

\* position of input file f in the enumeration
IndexOf(f) == CHOOSE i \in DOMAIN input_files : input_files[i] = f

\* the run has an effect of kind op on input file f
Did(op, f) == \E i \in DOMAIN trace : trace[i].op = op /\ trace[i].file = f

\* path p of map m1 is as it is in map m0
Same(m0, m1, p) ==
    /\ p \in DOMAIN m1 <=> p \in DOMAIN m0
    /\ p \in DOMAIN m1 /\ p \in DOMAIN m0 => m1[p] = m0[p]

AgentNames == { Strip(a) : a \in RawAgents } \ { "" }

\* the run has not touched input file g: no effect recorded, prompt and logs
\* as they were when the run started
Untouched(g) ==
    /\ \A i \in DOMAIN trace : trace[i].file # g
    /\ Same(fs_start.prompts, fs.prompts, g)
    /\ \A a \in AgentNames : Same(fs_start.logs, fs.logs, LogPath(a, g))

\* no input file after position n has been touched
LaterUntouched(n) == \A j \in (n + 1)..Len(input_files) : Untouched(input_files[j])

\* the agents invoked on input file f, in the order of their invocation
InvokedOn(f) ==
    LET on == SelectSeq(trace, LAMBDA e : e.op = "invoke" /\ e.file = f)
    IN  [m \in DOMAIN on |-> on[m].agent]

\* no success of the run wrote to output path p
NoSuccessAt(p) ==
    \A i \in DOMAIN trace :
        trace[i].op = "invoke" /\ trace[i].rc = 0 => OutputPath(trace[i].file) # p

----------------------------------------------------------------------------
(* C1 *)

\* the last effect of the run is the writing of an output artifact
C1_JustSucceeded == trace # <<>> /\ Last(trace).op = "output"

C1_Common(f, k) ==
    /\ \A j \in 1..(k + 1) : LogPath(queue_before[j], f) \in DOMAIN fs.logs
    /\ OutputPath(f) \in DOMAIN fs.outputs
    /\ fs.outputs[OutputPath(f)] = result.stdout
    /\ agents = RotateLeft(queue_before, k)

\* C1 as stated: with distinct agent names, after k rate-limited attempts and
\* a success on a file, each of the k+1 agents has a log for the file, the
\* output artifact is the stdout of the succeeding agent, the queue is the
\* queue before the file rotated left by k, and the run moves on to the next
\* file, or exits 0 if the file was the last.
C1_Original ==
    Distinct(agents_list) /\ C1_JustSucceeded =>
        LET f == Last(trace).file
            n == IndexOf(f)
        IN  /\ C1_Common(f, Len(attempts))
            /\ \/ pc = "files" /\ idx = n + 1
               \/ n = Len(input_files) /\ pc = "end"
               \/ n = Len(input_files) /\ pc = "done" /\ exit_code = 0

\* C1 amended: the same, except that in sample mode the run does not move on
\* to the next file but ends with exit code 0.
C1_FallbackThenSuccess ==
    Distinct(agents_list) /\ C1_JustSucceeded =>
        LET f == Last(trace).file
            n == IndexOf(f)
        IN  /\ C1_Common(f, Len(attempts))
            /\ IF args.sample_run
               THEN pc = "end" \/ (pc = "done" /\ exit_code = 0)
               ELSE \/ pc = "files" /\ idx = n + 1
                    \/ n = Len(input_files) /\ pc = "done" /\ exit_code = 0

\* agents [claude, codex, gemini]: the first two rate-limited, the third
\* succeeded, and the run is about to take the next file
C1_Witness ==
    /\ agents_list = <<"claude", "codex", "gemini">>
    /\ queue_before = agents_list
    /\ C1_JustSucceeded
    /\ Len(attempts) = 2
    /\ agents = <<"gemini", "claude", "codex">>
    /\ ~args.sample_run
    /\ pc = "files"
    /\ idx <= Len(input_files)

----------------------------------------------------------------------------
(* C2 *)

\* C2: once the queue is built, it holds each name as often as the parsed
\* --agents list does, and its order is that list rotated left by the number
\* of rate-limited attempts of the run so far, modulo its length.
C2_RotationInvariant ==
    agents_list # <<>> =>
        /\ Len(agents) = Len(agents_list)
        /\ \A a \in AgentNames : Count(agents, a) = Count(agents_list, a)
        /\ agents = RotateLeft(agents_list, rotations % Len(agents_list))
        /\ rotations = Cardinality({ i \in DOMAIN trace : trace[i].op = "rotate" })

\* three distinct agents, more rate-limited attempts than agents, over two files
C2_Witness ==
    /\ agents_list = <<"claude", "codex", "gemini">>
    /\ rotations = 4
    /\ idx = 2
    /\ agents = <<"codex", "gemini", "claude">>

----------------------------------------------------------------------------
(* C3 *)

\* every agent of the queue was tried on the current file and rate-limited,
\* and the run is over
C3_AllRateLimited ==
    /\ pc = "done"
    /\ trace # <<>>
    /\ Last(trace).op = "rotate"
    /\ Len(attempts) = Len(agents)
    /\ \A j \in DOMAIN attempts : attempts[j][1] = queue_before[j]

\* C3: when every agent was rate-limited on a file, the run exits with code
\* 3, it has written no output artifact for the file (the artifact is as it
\* was unless a success on another file of the same stem wrote it), and no
\* later file has an invocation, a prompt or a log.
C3_Exhaustion ==
    C3_AllRateLimited =>
        LET f == Last(trace).file
        IN  /\ exit_code = 3
            /\ ~Did("output", f)
            /\ NoSuccessAt(OutputPath(f)) =>
                   Same(fs_start.outputs, fs.outputs, OutputPath(f))
            /\ f = input_files[idx]
            /\ LaterUntouched(idx)

\* three agents all rate-limited on the first of two files, no output before
C3_Witness ==
    /\ C3_AllRateLimited
    /\ Len(agents) = 3
    /\ Distinct(agents)
    /\ idx = 1
    /\ Len(input_files) = 2
    /\ fs.outputs = <<>>
    /\ exit_code = 3

----------------------------------------------------------------------------
(* C4 *)

\* the last invocation exited non-zero with no rate-limit signature
C4_FatalResult == result.returncode > 0 /\ ~HasSignature(result)

\* C4: an attempt that exits non-zero without a rate-limit signature ends the
\* run: its log is the last effect of the run, the exit code is the agent's,
\* no output artifact is written for the file, and no later file has an
\* invocation, a prompt or a log.
C4_FatalAborts ==
    C4_FatalResult =>
        /\ pc = "done"
        /\ exit_code = result.returncode
        /\ trace # <<>>
        /\ Last(trace).op = "log"
        /\ Last(trace).rc = result.returncode
        /\ Last(trace).file = input_files[idx]
        /\ Len(attempts) = tried + 1
        /\ ~Did("output", input_files[idx])
        /\ NoSuccessAt(OutputPath(input_files[idx])) =>
               Same(fs_start.outputs, fs.outputs, OutputPath(input_files[idx]))
        /\ LaterUntouched(idx)

\* a fatal exit of the second agent tried, on the first of two files
C4_Witness ==
    /\ C4_FatalResult
    /\ pc = "done"
    /\ tried = 1
    /\ idx = 1
    /\ Len(input_files) = 2
    /\ exit_code = 3

----------------------------------------------------------------------------
(* C5 *)

\* the outer loop is at a file whose output artifact exists, without --force-rerun
C5_OutputExists ==
    /\ pc = "files"
    /\ idx \in DOMAIN input_files
    /\ OutputPath(input_files[idx]) \in DOMAIN fs.outputs
    /\ ~args.force_rerun

\* a run after a run that exited 0, neither in sample mode, this one without
\* --force-rerun
C5_SecondRun ==
    /\ run > 1
    /\ prev[run - 1].exit_code = 0
    /\ ~prev[run - 1].args.sample_run
    /\ ~args.sample_run
    /\ ~args.force_rerun

\* C5: the step taken at a file whose output artifact exists, without
\* --force-rerun, counts the file as succeeded, invokes no agent, writes
\* nothing and leaves the queue as it is; and a run that follows a run that
\* exited 0 (no sample mode, the second without --force-rerun) makes no
\* invocation, leaves every log and output artifact as it was, and exits 0.
C5_Idempotence ==
    /\ [][C5_OutputExists =>
            /\ succeeded' = succeeded + 1
            /\ failed' = failed
            /\ agents' = agents
            /\ fs' = fs
            /\ Invocations' = Invocations
            /\ pc' \in {"files", "end"}]_vars
    /\ [](C5_SecondRun =>
            /\ Invocations = 0
            /\ fs.logs = fs_start.logs
            /\ fs.outputs = fs_start.outputs
            /\ pc = "done" => exit_code = 0)

\* the second run over two files is over; the first run wrote logs and outputs
C5_Witness ==
    /\ C5_SecondRun
    /\ pc = "done"
    /\ exit_code = 0
    /\ Len(input_files) = 2
    /\ succeeded = 2
    /\ fs.logs # <<>>
    /\ Cardinality(DOMAIN fs.outputs) = 2

----------------------------------------------------------------------------
(* C6 *)

\* the configuration is in error: no placeholder, no input file, no agent,
\* or bwrap asked for and not found
C6_ConfigError ==
    \/ PLACEHOLDER \notin Range(task)
    \/ input_dir.entries = {}
    \/ \A i \in DOMAIN args.agents : Strip(args.agents[i]) = ""
    \/ args.bwrap /\ ~bwrap_found

\* C6: a run with a configuration error ends with a non-zero exit code, with
\* no invocation, and with the output directory as it was when the run
\* started.
C6_NoPartialWork ==
    C6_ConfigError /\ pc = "done" =>
        /\ exit_code # 0
        /\ Invocations = 0
        /\ fs = fs_start

----------------------------------------------------------------------------
(* C7 *)

\* C7: with a task that lacks {{INPUT_FILE}} the run ends with exit code 2,
\* whatever else is wrong with the configuration, without having listed the
\* input files and with the output directory as it was.
C7_MissingPlaceholder ==
    PLACEHOLDER \notin Range(task) /\ pc # "start" =>
        /\ pc = "done"
        /\ exit_code = 2
        /\ trace = <<>>
        /\ input_files = <<>>
        /\ fs = fs_start

\* no placeholder, and also no input file, no agent and no bwrap
C7_Witness ==
    /\ PLACEHOLDER \notin Range(task)
    /\ pc = "done"
    /\ exit_code = 2
    /\ input_dir.entries = {}
    /\ ParseAgents(args.agents) = <<>>
    /\ args.bwrap
    /\ ~bwrap_found

----------------------------------------------------------------------------
(* C8 *)

\* C8: in sample mode every effect of the run is on the first enumerated
\* file, a run that exits 0 has counted exactly one file, and when the first
\* file is skipped the run makes no invocation and ends with exit code 0.
C8_SampleRun ==
    args.sample_run /\ input_files # <<>> =>
        /\ \A i \in DOMAIN trace : trace[i].op # "list" => trace[i].file = input_files[1]
        /\ LaterUntouched(1)
        /\ pc = "done" /\ exit_code = 0 => succeeded = 1
        /\ Did("skip", input_files[1]) =>
               /\ Invocations = 0
               /\ pc \in {"end", "done"}
               /\ pc = "done" => exit_code = 0

\* sample mode, the first of two files skipped, the second without output
C8_Witness ==
    /\ args.sample_run
    /\ pc = "done"
    /\ exit_code = 0
    /\ Len(input_files) = 2
    /\ Did("skip", input_files[1])
    /\ OutputPath(input_files[2]) \notin DOMAIN fs.outputs

----------------------------------------------------------------------------
(* C9 *)

\* C9: a step changes an output artifact only if it is an invocation that
\* exits 0; an invocation that exits 0, with or without a rate-limit
\* signature, writes its stdout as the artifact of the current file and of
\* no other, leaves the queue as it is and ends the file; an invocation that
\* exits non-zero writes no artifact.
C9_OutputOnlyOnSuccess ==
    [][LET invoked == Invocations' = Invocations + 1
           p == OutputPath(input_files[idx])
       IN  /\ fs'.outputs # fs.outputs => invoked /\ result'.returncode = 0
           /\ invoked /\ result'.returncode = 0 =>
                  /\ pc = "agents"
                  /\ p \in DOMAIN fs'.outputs
                  /\ fs'.outputs[p] = result'.stdout
                  /\ \A q \in OutputPaths \ {p} : Same(fs.outputs, fs'.outputs, q)
                  /\ agents' = agents
                  /\ succeeded' = succeeded + 1
                  /\ pc' \in {"files", "end"}
           /\ invoked /\ result'.returncode # 0 => fs'.outputs = fs.outputs
      ]_vars

\* an agent exited 0 with a rate-limit signature after one rotation: the file
\* is done and the queue is where the rotation left it
C9_Witness ==
    /\ result.returncode = 0
    /\ HasSignature(result)
    /\ C1_JustSucceeded
    /\ Len(attempts) = 1
    /\ Len(agents) = 3
    /\ agents = RotateLeft(agents_list, 1)
    /\ fs.outputs[OutputPath(Last(trace).file)] = result.stdout
    /\ pc = "files"

----------------------------------------------------------------------------
(* C10 *)

\* C10: no name occurs twice in the queue.
C10_UniqueNames == Distinct(agents)

----------------------------------------------------------------------------
(* C11 *)

\* the outer loop has taken the j-th input file
C11_Reached(j) ==
    /\ pc # "start"
    /\ j \in DOMAIN input_files
    /\ j < idx \/ (j = idx /\ pc \in {"agents", "end", "done"})

\* the prompt of f holds the rendered task and was written before every
\* invocation on f
C11_PromptFirst(f) ==
    /\ f \in DOMAIN fs.prompts
    /\ fs.prompts[f] = render_task(task, f, InputRelPath(f, args.bwrap))
    /\ \A i \in DOMAIN trace :
           trace[i].op = "invoke" /\ trace[i].file = f =>
               \E k \in 1..(i - 1) : trace[k].op = "prompt" /\ trace[k].file = f

\* C11 as stated: every input file the run has reached, skipped ones
\* included, has its rendered task in the prompts directory, written before
\* any invocation on it.
C11_Original ==
    \A j \in DOMAIN input_files : C11_Reached(j) => C11_PromptFirst(input_files[j])

\* C11 amended: every input file the run has reached and not skipped has its
\* rendered task in the prompts directory, written before any invocation on
\* it; for a skipped file no prompt is written.
C11_PromptBeforeInvocation ==
    \A j \in DOMAIN input_files :
        C11_Reached(j) =>
            IF Did("skip", input_files[j])
            THEN /\ ~Did("prompt", input_files[j])
                 /\ Same(fs_start.prompts, fs.prompts, input_files[j])
            ELSE C11_PromptFirst(input_files[j])

\* two files: the first skipped, the second ended by a fatal failure of the
\* second agent tried, its prompt written
C11_Witness ==
    /\ Len(input_files) = 2
    /\ pc = "done"
    /\ idx = 2
    /\ Did("skip", input_files[1])
    /\ C4_FatalResult
    /\ tried = 1
    /\ C11_PromptFirst(input_files[2])
    /\ input_files[1] \notin DOMAIN fs.prompts

----------------------------------------------------------------------------
(* C12 *)

\* C12: for every invocation the run has made, the log at the agent's path
\* for the file exists and records the exit code of that invocation, and the
\* log was written before the output was written or the queue rotated.
C12_EveryAttemptLogged ==
    \A i \in DOMAIN trace :
        trace[i].op = "invoke" =>
            LET path == LogPath(trace[i].agent, trace[i].file)
            IN  /\ path \in DOMAIN fs.logs
                /\ fs.logs[path].exit_code = trace[i].rc
                /\ i < Len(trace)
                /\ trace[i + 1].op = "log"

----------------------------------------------------------------------------
(* C13 *)

\* the run ended because every agent was rate-limited on a file
C13_EndedExhausted == C3_AllRateLimited

\* the run ended on a fatal failure of an agent
C13_EndedFatal == pc = "done" /\ C4_FatalResult

\* C13 as stated: the run exits with code 3 exactly when it ended by
\* exhaustion, and a run that ended on a fatal failure exits with the
\* agent's code, which is none of 3, 2 and 1.
C13_Original ==
    pc = "done" =>
        /\ exit_code = 3 <=> C13_EndedExhausted
        /\ C13_EndedFatal => exit_code = result.returncode /\ exit_code \notin {1, 2, 3}

\* C13 amended: a run that ended by exhaustion exits with code 3; a run that
\* ended on a fatal failure exits with the agent's code, which may itself be
\* 3, 2 or 1; a run exits with code 3 only if it ended by exhaustion or on a
\* fatal failure of an agent that exited 3.
C13_ExitCodes ==
    pc = "done" =>
        /\ C13_EndedExhausted => exit_code = 3
        /\ C13_EndedFatal => exit_code = result.returncode
        /\ exit_code = 3 =>
               \/ C13_EndedExhausted
               \/ C13_EndedFatal /\ result.returncode = 3

\* both ways to exit 3 occur: this one is exhaustion after the last result
\* was a rate-limited exit 1
C13_Witness ==
    /\ C13_EndedExhausted
    /\ exit_code = 3
    /\ result.returncode = 1
    /\ Len(agents) = 2
    /\ Distinct(agents)

----------------------------------------------------------------------------
(* C14 *)

\* the prompts written by the run, in order: one per processed (not skipped)
\* file
C14_Processed == SelectSeq(trace, LAMBDA e : e.op = "prompt")

\* number of rate-limited attempts on the files of F
C14_Demotions(F) ==
    Cardinality({ i \in DOMAIN trace : trace[i].op = "rotate" /\ trace[i].file \in F })

\* the queue as the first m processed files of proc left it: the configured
\* order rotated left once per rate-limited attempt on them
C14_QueueAfter(proc, m) ==
    RotateLeft(agents_list,
               C14_Demotions({ proc[k].file : k \in 1..m }) % Len(agents_list))

\* the first agent invoked on a processed file is the one that succeeded on
\* the file processed before it, or the first of the configured order
C14_FirstAgent ==
    LET proc == C14_Processed
    IN  \A m \in DOMAIN proc :
            LET now == InvokedOn(proc[m].file)
            IN  now # <<>> =>
                    IF m = 1
                    THEN now[1] = agents_list[1]
                    ELSE \E i \in DOMAIN trace :
                             /\ trace[i].op = "output"
                             /\ trace[i].file = proc[m - 1].file
                             /\ trace[i].agent = now[1]

\* C14 as stated: the first agent invoked on a processed file is the one that
\* succeeded on the file processed before it (the first of the configured
\* order if there is none), and an agent rate-limited on the earlier file is
\* invoked on the next one only after every agent that was, when it was
\* demoted, behind it and ahead of the succeeding agent.
C14_Original ==
    /\ C14_FirstAgent
    /\ Distinct(agents_list) =>
           LET proc == C14_Processed
           IN  \A m \in 2..Len(proc) :
                   LET earlier == InvokedOn(proc[m - 1].file)
                       k == C14_Demotions({ proc[m - 1].file })
                       now == InvokedOn(proc[m].file)
                   IN  \A i \in 1..k : \A j \in (i + 1)..k : \A n \in DOMAIN now :
                           now[n] = earlier[i] =>
                               \E l \in 1..(n - 1) : now[l] = earlier[j]

\* C14 amended: the first agent invoked on a processed file is the one that
\* succeeded on the file processed before it (the first of the configured
\* order if there is none), and the agents are invoked on it in the order in
\* which the earlier file left the queue: the succeeding agent, then the
\* agents that were behind it, then the agents rate-limited on the earlier
\* file in the order of their demotion.
C14_DemotionPersists ==
    /\ C14_FirstAgent
    /\ LET proc == C14_Processed
       IN  \A m \in DOMAIN proc :
               LET now == InvokedOn(proc[m].file)
                   left == C14_QueueAfter(proc, m - 1)
               IN  /\ Len(now) <= Len(left)
                   /\ \A n \in DOMAIN now : now[n] = left[n]

\* claude then codex rate-limited and gemini succeeded on the first file; on
\* the second, gemini was rate-limited and claude is invoked before codex
C14_Witness ==
    /\ agents_list = <<"claude", "codex", "gemini">>
    /\ Len(input_files) = 2
    /\ idx = 2
    /\ InvokedOn(input_files[1]) = <<"claude", "codex", "gemini">>
    /\ InvokedOn(input_files[2]) = <<"gemini", "claude">>

----------------------------------------------------------------------------
(* C15 *)

\* output path p holds an artifact written by a success of this run
C15_Written(p) ==
    /\ p \in DOMAIN fs.outputs
    /\ \E i \in DOMAIN trace : trace[i].op = "output" /\ OutputPath(trace[i].file) = p

\* C15: once an output artifact has been written in a run, no later step of
\* the run deletes or changes it, whatever the input file names and with or
\* without --force-rerun.
C15_OutputsPreserved ==
    [][\A p \in OutputPaths :
           C15_Written(p) => p \in DOMAIN fs'.outputs /\ fs'.outputs[p] = fs.outputs[p]]_vars

----------------------------------------------------------------------------
(* C16 *)

\* place of a file of the pool in the ascending order of base names:
\* "a.md" < "a.txt" < "b.txt"
C16_Place(f) ==
    CASE f = <<"a", ".md">> -> 1
      [] f = <<"a", ".txt">> -> 2
      [] f = <<"b", ".txt">> -> 3

\* the effects of the run that concern an input file, in order
C16_FileEvents == SelectSeq(trace, LAMBDA e : e.file \in Range(input_files))

\* C16: input files are handled in ascending base-name order, every
\* invocation for a file happens after the previous file has reached a final
\* outcome (succeeded or skipped), and a file is never revisited once the run
\* has moved past it.
C16_Sequential ==
    /\ \A i \in 1..(Len(input_files) - 1) :
           C16_Place(input_files[i]) < C16_Place(input_files[i + 1])
    /\ \A n \in 2..Len(input_files) :
           LET final == { k \in DOMAIN trace :
                            /\ trace[k].file = input_files[n - 1]
                            /\ trace[k].op \in { "skip", "output" } }
           IN  \A i \in DOMAIN trace :
                   trace[i].op = "invoke" /\ trace[i].file = input_files[n] =>
                       \E k \in final : k < i
    /\ LET events == C16_FileEvents
       IN  \A i \in 1..(Len(events) - 1) :
               C16_Place(events[i].file) <= C16_Place(events[i + 1].file)

\* the second of two files is being attempted after a rate-limited attempt,
\* the first having succeeded after one
C16_Witness ==
    /\ Len(input_files) = 2
    /\ pc = "agents"
    /\ idx = 2
    /\ tried = 1
    /\ Did("rotate", input_files[1])
    /\ Did("output", input_files[1])

----------------------------------------------------------------------------
(* C17 *)

\* at most (queue length) invocations per file, no agent twice for one file
\* when the names are distinct, at most (files) x (queue length) in all
C17_Bounded ==
    /\ \A f \in Range(input_files) : Len(InvokedOn(f)) <= Len(agents_list)
    /\ Distinct(agents_list) => \A f \in Range(input_files) : Distinct(InvokedOn(f))
    /\ Invocations <= Len(input_files) * Len(agents_list)

\* C17: for one file at most (queue length) invocations are made and, when
\* agent names are distinct, no agent is invoked twice for the same file;
\* provided every invocation returns, the run terminates with an exit code
\* after at most (number of input files) x (queue length) invocations, for
\* every sequence of outcomes.
C17_BoundedTermination ==
    /\ []C17_Bounded
    /\ <>(pc = "done" /\ exit_code # Running)

\* a run ended having made every invocation it could: three agents over two
\* files, the second file exhausting the queue
C17_Witness ==
    /\ pc = "done"
    /\ exit_code = 3
    /\ Len(input_files) = 2
    /\ Len(agents_list) = MaxAgents
    /\ Invocations = Len(input_files) * Len(agents_list)

----------------------------------------------------------------------------
(* C18 *)

\* the run counted input file f as succeeded
C18_Counted(f) == Did("skip", f) \/ Did("output", f)

\* number of invocations of the run that exited 0
C18_ZeroExits ==
    Cardinality({ i \in DOMAIN trace : trace[i].op = "invoke" /\ trace[i].rc = 0 })

\* C18: every input file counted as succeeded had an agent exit 0 while
\* invoked on it in this run, or was skipped because its output artifact
\* existed before the run started; from an empty output directory without
\* --force-rerun and --sample-run, a run that exits 0 over n input files has
\* made exactly n invocations that exited 0, one per input file.
C18_SoundCount ==
    /\ \A f \in Range(input_files) :
           C18_Counted(f) =>
               \/ \E i \in DOMAIN trace :
                      trace[i].op = "invoke" /\ trace[i].file = f /\ trace[i].rc = 0
               \/ Did("skip", f) /\ OutputPath(f) \in DOMAIN fs_start.outputs
    /\ ( /\ pc = "done"
         /\ exit_code = 0
         /\ DOMAIN fs_start.outputs = {}
         /\ ~args.force_rerun
         /\ ~args.sample_run )
       => /\ C18_ZeroExits = Len(input_files)
          /\ \A f \in Range(input_files) :
                 \E i \in DOMAIN trace :
                     trace[i].op = "invoke" /\ trace[i].file = f /\ trace[i].rc = 0

----------------------------------------------------------------------------
(* C19 *)

\* the input files the run is asked to handle: the first one in sample mode
C19_Asked == IF args.sample_run THEN { input_files[1] } ELSE Range(input_files)

\* input file f ended as succeeded or skipped
C19_Ended(f) == Did("skip", f) \/ Did("output", f)

\* C19: the run exits with code 0 only if every enumerated input file (only
\* the first one in sample mode) ended as succeeded or skipped, each such
\* file's output artifact then existing on disk; whenever a file ends in a
\* fatal failure or exhaustion the exit code is non-zero.
C19_ExitZero ==
    pc = "done" =>
        /\ exit_code = 0 =>
               /\ input_files # <<>>
               /\ \A f \in C19_Asked :
                      C19_Ended(f) /\ OutputPath(f) \in DOMAIN fs.outputs
        /\ (\E f \in Range(input_files) : Did("prompt", f) /\ ~C19_Ended(f)) =>
               exit_code # 0

\* a run over two files exited 0, the first skipped and the second succeeded
\* after a rate-limited attempt
C19_Witness ==
    /\ pc = "done"
    /\ exit_code = 0
    /\ ~args.sample_run
    /\ Len(input_files) = 2
    /\ Did("skip", input_files[1])
    /\ Did("rotate", input_files[2])
    /\ Did("output", input_files[2])

====
